---- MODULE Spec2Model ----
(***************************************************************************)
(* AFLTriage: the triage engine of src/main.rs (main_wrapper, the parallel *)
(* triage loop, the profiler) and of the GDB driver (DbgMarker::extract,   *)
(* GdbTriager::triage_program).                                            *)
(*                                                                         *)
(* Text is the sequence of its bytes, one string per byte.  A Rust String  *)
(* that is only compared (messages, details) is a sequence of strings.     *)
(* A panic ends the process with exit status 101.  Marker                  *)
(* tags are abbreviated: "-CS-" stands for                                 *)
(* "----AFLTRIAGE_CHILD_OUTPUT_START----", and so on; like the real tags   *)
(* they begin and end with the same dash run.                              *)
(***************************************************************************)
EXTENDS Integers, Sequences, FiniteSets, TLC

VARIABLES
    pc,            \* position of main_wrapper
    exit_code,     \* value returned by main_wrapper, "none" while running
    args,          \* the parsed command line
    sys,           \* facts of the machine: cpu count, available memory
    ntestcases,    \* all_testcases.len()
    max_recommended_threadcount,
    debugger_rss,  \* profile_result.debugger_rss, 0 when no profile ran
    job_count,     \* threads the pool is built with, 0 before it is built
    state,         \* the TriageState behind the mutex
    lock,          \* holder of the mutex, "none" when free
    queue,         \* test cases no worker has taken yet
    wpc,           \* position of each worker inside the closure
    cur,           \* locals of each worker: testcase, gdb run, result
    outcome,       \* per test case: what triage_test_case returned
    io_log,        \* output performed: reports rendered, messages, files
    gdb_run,       \* triage_program alone: what the process runner returned
    tri,           \* triage_program alone: result and classification
    testcase,      \* triage_test_case alone: path of the test case
    marker_in,     \* DbgMarker::extract alone: the marker and the text
    marker_out,    \* DbgMarker::extract alone: what it returned
    effects,       \* calls main_wrapper made on the system so far
    env,           \* the process environment and the writes made to it
    input_paths,   \* the -i paths, each with what the file system holds there
    processed_inputs  \* the UserInputPath built for each path so far

vars == <<pc, exit_code, args, sys, ntestcases, max_recommended_threadcount,
          debugger_rss, job_count, state, lock, queue, wpc, cur, outcome,
          io_log, gdb_run, tri, testcase, marker_in, marker_out, effects,
          env, input_paths, processed_inputs>>

input_vars == <<input_paths, processed_inputs>>

startup_vars == <<args, sys, ntestcases, max_recommended_threadcount,
                  debugger_rss, job_count>>
pool_vars == <<state, lock, queue, wpc, cur, outcome, io_log>>
triage_vars == <<gdb_run, tri, testcase>>
extract_vars == <<marker_in, marker_out>>

-----------------------------------------------------------------------------
(* Bounds *)
MaxPieces == 4
MaxTestcases == 2
MaxJobs == 2
MaxCpus == 2
MaxJobsArg == 3
MaxMemKb == 4
MaxRss == 2

\* Option: Nothing is Option::None, Some(x) is Option::Some(x)
Nothing == <<>>
Some(x) == <<x>>
IsSome(o) == o # <<>>
Unwrap(o) == o[1]
\* absent integers (no exit yet, no lock holder, no -j, unknown memory)
NoInt == -1
BadInt == -2

Min(a, b) == IF a <= b THEN a ELSE b
Max(a, b) == IF a >= b THEN a ELSE b
SetMin(S) == CHOOSE x \in S : \A y \in S : x <= y

-----------------------------------------------------------------------------
(* Marker framing *)

NL == "\n"

MARKER_CHILD_OUTPUT == [start |-> <<"-", "C", "S", "-">>,
                        end   |-> <<"-", "C", "E", "-">>]
MARKER_BACKTRACE == [start |-> <<"-", "B", "S", "-">>,
                     end   |-> <<"-", "B", "E", "-">>]

\* str::find: byte index of the first occurrence, -1 for Option::None
Find(text, pat) ==
    LET hits == {i \in 0..(Len(text) - Len(pat)) :
                    SubSeq(text, i + 1, i + Len(pat)) = pat}
    IN IF hits = {} THEN -1 ELSE SetMin(hits)

Ok(v) == [ok |-> TRUE, val |-> v]
Err(e) == [ok |-> FALSE, err |-> e]

\* A text is the sequence of its UTF-8 bytes, one string per byte; "c3" and
\* "a9" are the two bytes of one character, "a9" being a continuation byte.
Continuation == {"a9"}
TwoByteChar == <<"c3", "a9">>

\* str::is_char_boundary
is_char_boundary(text, index) ==
    \/ index = 0
    \/ index = Len(text)
    \/ index < Len(text) /\ text[index + 1] \notin Continuation

\* the thread panicked
Panicked == [ok |-> FALSE, panic |-> TRUE]

\* a variant that slices to the end of the text
str_slice_ToEnd(text, from, to) ==
    IF is_char_boundary(text, from) /\ is_char_boundary(text, to)
    THEN Ok(SubSeq(text, from + 1, Len(text)))
    ELSE Panicked

\* &text[from..to]: panics unless both ends are character boundaries
str_slice(text, from, to) ==
    IF is_char_boundary(text, from) /\ is_char_boundary(text, to)
    THEN Ok(SubSeq(text, from + 1, to))
    ELSE Panicked

\* a variant that falls back to the whole text when the start tag is missing
extract_Lenient(m, text) ==
    LET start_idx == Find(text, m.start)
        end_idx == Find(text, m.end)
        s == start_idx + Len(m.start) + 1
    IN IF start_idx = -1 THEN Ok(text)
       ELSE IF end_idx = -1 THEN Err(<<"Could not find ">> \o m.end)
       ELSE IF s <= end_idx THEN str_slice(text, s, end_idx)
       ELSE Err(<<"Start marker and end marker out-of-order">>)

\* a variant that looks for the end tag before it looks for the start tag
extract_EndFirst(m, text) ==
    LET start_idx == Find(text, m.start)
        end_idx == Find(text, m.end)
        s == start_idx + Len(m.start) + 1
    IN IF end_idx = -1 THEN Err(<<"Could not find ">> \o m.end)
       ELSE IF start_idx = -1 THEN Err(<<"Could not find ">> \o m.start)
       ELSE IF s <= end_idx THEN str_slice(text, s, end_idx)
       ELSE Err(<<"Start marker and end marker out-of-order">>)

\* a variant that looks for the end tag from the start tag on
extract_EndAfterStart(m, text) ==
    LET start_idx == Find(text, m.start)
        rest == SubSeq(text, start_idx + 1, Len(text))
        end_idx == IF Find(rest, m.end) = -1 THEN -1
                   ELSE start_idx + Find(rest, m.end)
        s == start_idx + Len(m.start) + 1
    IN IF start_idx = -1 THEN Err(<<"Could not find ">> \o m.start)
       ELSE IF end_idx = -1 THEN Err(<<"Could not find ">> \o m.end)
       ELSE IF s <= end_idx THEN str_slice(text, s, end_idx)
       ELSE Err(<<"Start marker and end marker out-of-order">>)

\* a variant that rejects an empty payload
extract_StrictOrder(m, text) ==
    LET start_idx == Find(text, m.start)
        end_idx == Find(text, m.end)
        s == start_idx + Len(m.start) + 1
    IN IF start_idx = -1 THEN Err(<<"Could not find ">> \o m.start)
       ELSE IF end_idx = -1 THEN Err(<<"Could not find ">> \o m.end)
       ELSE IF s < end_idx THEN str_slice(text, s, end_idx)
       ELSE Err(<<"Start marker and end marker out-of-order">>)

\* DbgMarker::extract
extract(m, text) ==
    LET start_idx == Find(text, m.start) IN
    IF start_idx = -1
    THEN Err(<<"Could not find ">> \o m.start)
    ELSE LET end_idx == Find(text, m.end) IN
         IF end_idx = -1
         THEN Err(<<"Could not find ">> \o m.end)
         ELSE LET s == start_idx + Len(m.start) + 1 IN
              IF s <= end_idx
              THEN str_slice(text, s, end_idx)
              ELSE Err(<<"Start marker and end marker out-of-order">>)

\* str::lines: split at "\n", a final line terminator adds no empty line
RECURSIVE LinesFrom(_, _)
LinesFrom(text, acc) ==
    IF text = <<>>
    THEN IF acc = <<>> THEN <<>> ELSE <<acc>>
    ELSE IF Head(text) = NL
         THEN <<acc>> \o LinesFrom(Tail(text), <<>>)
         ELSE LinesFrom(Tail(text), Append(acc, Head(text)))

\* a variant that keeps the text as one detail
lines_Whole(text) == <<text>>

lines(text) == LinesFrom(text, <<>>)

-----------------------------------------------------------------------------
(* The triage script's JSON response.  A document is abbreviated to        *)
(* "{" code context? "}" with code S (SUCCESS) or N                        *)
(* (ERROR_TARGET_NOT_RUNNING) and context 1, 2 (a context whose primary    *)
(* thread has one frame) or 0 (a context with an empty backtrace).         *)

GdbResultCode == {"SUCCESS", "ERROR_TARGET_NOT_RUNNING"}

Whitespace == {NL, " "}

RECURSIVE TrimStart(_)
TrimStart(t) ==
    IF t # <<>> /\ Head(t) \in Whitespace THEN TrimStart(Tail(t)) ELSE t

RECURSIVE TrimEnd(_)
TrimEnd(t) ==
    IF t # <<>> /\ t[Len(t)] \in Whitespace
    THEN TrimEnd(SubSeq(t, 1, Len(t) - 1)) ELSE t

CodeOf(c) == IF c = "S" THEN "SUCCESS" ELSE "ERROR_TARGET_NOT_RUNNING"

\* GdbContextInfo, reduced to the primary thread's backtrace
ContextOf(c) ==
    [primary_thread |->
        [backtrace |-> IF c = "0" THEN <<>> ELSE <<c>>]]

\* serde_json::from_str::<GdbJsonResult>
\* a variant that reads an empty payload as a response without context
parse_response_EmptyIsNoCrash(resp) ==
    LET d == TrimEnd(TrimStart(resp)) IN
    IF d = <<>>
    THEN Ok([result |-> CodeOf("N"), context |-> Nothing])
    ELSE IF /\ Len(d) = 3
            /\ d[1] = "{" /\ d[2] \in {"S", "N"} /\ d[3] = "}"
    THEN Ok([result |-> CodeOf(d[2]), context |-> Nothing])
    ELSE IF /\ Len(d) = 4
            /\ d[1] = "{" /\ d[2] \in {"S", "N"}
            /\ d[3] \in {"0", "1", "2", "3"} /\ d[4] = "}"
    THEN Ok([result |-> CodeOf(d[2]), context |-> Some(ContextOf(d[3]))])
    ELSE Err(<<"expected value">>)

parse_response(resp) ==
    LET d == TrimEnd(TrimStart(resp)) IN
    IF /\ Len(d) = 3
       /\ d[1] = "{" /\ d[2] \in {"S", "N"} /\ d[3] = "}"
    THEN Ok([result |-> CodeOf(d[2]), context |-> Nothing])
    ELSE IF /\ Len(d) = 4
            /\ d[1] = "{" /\ d[2] \in {"S", "N"}
            /\ d[3] \in {"0", "1", "2", "3"} /\ d[4] = "}"
    THEN Ok([result |-> CodeOf(d[2]), context |-> Some(ContextOf(d[3]))])
    ELSE Err(<<"expected value">>)

-----------------------------------------------------------------------------
(* GdbTriager::triage_program, from the process runner's result on *)

GdbTriageError(kind, error, details) ==
    [error_kind |-> kind, error |-> error, details |-> details]

\* what execute_capture_output_timeout returned for the gdb invocation
RunnerErr(kind) == [err |-> kind, stdout |-> <<>>, stderr |-> <<>>, status |-> 0]
RunnerOk(out, errtext, st) ==
    [err |-> "none", stdout |-> out, stderr |-> errtext, status |-> st]

\* a variant that reports every process-runner failure as a Command error
runner_error_AllCommand(kind) ==
    GdbTriageError("Command", "Failed to execute GDB command", << <<kind>> >>)

\* the Err arm of execute_capture_output_timeout's result
runner_error(kind) ==
    IF kind = "TimedOut"
    THEN GdbTriageError("Timeout", "Timed out when triaging", << <<kind>> >>)
    ELSE GdbTriageError("Command", "Failed to execute GDB command",
                        << <<kind>> >>)

triage_program(output) ==
    IF output.err # "none"
    THEN Err(runner_error(output.err))
    ELSE
    LET child_output_stdout == extract(MARKER_CHILD_OUTPUT, output.stdout)
        child_output_stderr == extract(MARKER_CHILD_OUTPUT, output.stderr)
        backtrace_output    == extract(MARKER_BACKTRACE, output.stdout)
        backtrace_messages  == extract(MARKER_BACKTRACE, output.stderr)
    IN
    IF child_output_stdout = Panicked THEN Panicked
    ELSE IF ~child_output_stdout.ok
    THEN Err(GdbTriageError("Command", "Could not extract child STDOUT",
                            <<child_output_stdout.err>>))
    ELSE IF child_output_stderr = Panicked THEN Panicked
    ELSE IF ~child_output_stderr.ok
    THEN Err(GdbTriageError("Command", "Could not extract child STDERR",
                            <<child_output_stderr.err>>))
    ELSE IF backtrace_output = Panicked THEN Panicked
    ELSE IF ~backtrace_output.ok
    THEN Err(GdbTriageError("Command", "Failed to get triage JSON from GDB",
                            <<backtrace_output.err>>))
    ELSE IF backtrace_messages = Panicked THEN Panicked
    ELSE IF ~backtrace_messages.ok
    THEN Err(GdbTriageError("Command", "Failed to get triage errors from GDB",
                            <<backtrace_messages.err>>))
    ELSE IF backtrace_output.val = <<>> /\ backtrace_messages.val # <<>>
    THEN Err(GdbTriageError("Command", "Triage script emitted errors",
                            lines(backtrace_messages.val)))
    ELSE
    LET json == parse_response(backtrace_output.val) IN
    IF json.ok
    THEN Ok([response |-> json.val,
             child |-> [stdout |-> child_output_stdout.val,
                        stderr |-> child_output_stderr.val,
                        status |-> output.status]])
    ELSE Err(GdbTriageError("Command", "Failed to parse triage JSON from GDB",
                            <<json.err>>))

-----------------------------------------------------------------------------
(* triage_test_case and the report formatter *)

NoCrash(child) == [tag |-> "NoCrash", child |-> child]
Crash(triage) == [tag |-> "Crash", triage |-> triage]
Error(e) == [tag |-> "Error", error |-> e]
\* no TriageResult: the panic unwinds through triage_test_case
Unwound == [tag |-> "panic"]
Timedout == [tag |-> "Timedout"]

\* a variant that decides on the result code
response_is_none_ByCode(response) == response.result # "SUCCESS"

\* triage_result.response.result.is_none(): main.rs tests the one optional
\* member of the response, `result` of gdb_triage.rs, `context` of
\* debugger/gdb.rs
response_is_none(response) == ~IsSome(response.context)

triage_test_case(output) ==
    LET r == triage_program(output) IN
    IF r = Panicked THEN Unwound
    ELSE IF ~r.ok
    THEN IF r.err.error_kind = "Timeout" THEN Timedout ELSE Error(r.err)
    ELSE IF response_is_none(r.val.response)
         THEN NoCrash(r.val.child)
         ELSE Crash(r.val)

\* the digest of a backtrace, nine characters of it: the backtraces 1 and 3
\* are two whose digests agree in the first eight characters
stackhash_of(backtrace) ==
    CASE backtrace = <<>> ->
           <<"0", "0", "0", "0", "0", "0", "0", "0", "0">>
      [] backtrace = <<"2">> ->
           <<"b", "b", "b", "b", "b", "b", "b", "b", "2">>
      [] OTHER ->
           <<"a", "a", "a", "a", "a", "a", "a", "a">> \o backtrace

\* report::format_text_report: the stackhash is a digest of the crashing
\* thread's backtrace, the terse headline names the signal and the function
format_text_report(triage) ==
    [stackhash |->
        stackhash_of(Unwrap(triage.response.context).primary_thread.backtrace),
     terse_headline |-> <<"SIGSEGV", " ", "main">>]

\* util::sanitize: characters unfit for a file name become "_"
sanitize(text) ==
    [i \in 1..Len(text) |-> IF text[i] \in {" ", "/"} THEN "_" ELSE text[i]]

\* format!("afltriage_{}_{}.txt", util::sanitize(&report.terse_headline),
\*         &report.stackhash[..8])
report_filename(report) ==
    <<"afltriage_">> \o sanitize(report.terse_headline) \o <<"_">> \o
    SubSeq(report.stackhash, 1, 8) \o <<".txt">>

-----------------------------------------------------------------------------
(* What gdb prints: each tag on its own line, on both streams *)

GdbStream(child, payload) ==
    MARKER_CHILD_OUTPUT.start \o <<NL>> \o child \o
    MARKER_CHILD_OUTPUT.end \o <<NL>> \o
    MARKER_BACKTRACE.start \o <<NL>> \o payload \o
    MARKER_BACKTRACE.end \o <<NL>>

Json(code, ctx) == IF ctx = "" THEN <<"{", code, "}", NL>>
                   ELSE <<"{", code, ctx, "}", NL>>

NoMarkerText == {<<>>, <<"x", NL>>}

\* gdb runs the pool's test cases produce
PoolRuns ==
    {RunnerErr("TimedOut"), RunnerErr("Other")}
    \cup {RunnerOk(<<"x", NL>>, <<>>, st) : st \in {0, 1}}
    \cup {RunnerOk(MARKER_CHILD_OUTPUT.start \o <<NL>>, <<>>, 0)}
    \cup {RunnerOk(GdbStream(<<"o", NL>>, Json("S", c)),
                   GdbStream(<<>>, <<>>), 0) : c \in {"1", "2", "3"}}
    \cup {RunnerOk(GdbStream(<<>>, Json("N", "")), GdbStream(<<>>, <<>>), 0)}
    \cup {RunnerOk(MARKER_CHILD_OUTPUT.start \o TwoByteChar \o <<NL>> \o
                       MARKER_CHILD_OUTPUT.end \o <<NL>>, <<>>, 0)}

-----------------------------------------------------------------------------
(* The parallel triage loop of main_wrapper *)

Workers == 1..MaxJobs

Idle == [tc |-> 0, run |-> RunnerErr("norun"), result |-> Timedout,
         report |-> Nothing, fresh |-> FALSE]

display_progress == sys.isatty /\ args.output_dir /\ ~args.debug

\* one output operation of worker w, and whether w held the mutex then
Logged(w, op, t, what) ==
    [op |-> op, tc |-> t, what |-> what, locked |-> lock = w]

\* a variant that forgets the no-crash counter
count_outcome_NoCrashDropped(st, tag) ==
    CASE tag = "NoCrash" -> st
      [] tag = "Timedout" -> [st EXCEPT !.timedout = @ + 1]
      [] tag = "Crash" -> [st EXCEPT !.crashed = @ + 1]
      [] tag = "Error" -> [st EXCEPT !.errored = @ + 1]

\* a variant whose Crash arm bumps the no-crash counter
count_outcome_CrashAsNoCrash(st, tag) ==
    CASE tag \in {"NoCrash", "Crash"} -> [st EXCEPT !.no_crash = @ + 1]
      [] tag = "Timedout" -> [st EXCEPT !.timedout = @ + 1]
      [] tag = "Error" -> [st EXCEPT !.errored = @ + 1]

\* the first statement of each match arm: state.<counter> += 1
count_outcome(st, tag) ==
    CASE tag = "NoCrash" -> [st EXCEPT !.no_crash = @ + 1]
      [] tag = "Timedout" -> [st EXCEPT !.timedout = @ + 1]
      [] tag = "Crash" -> [st EXCEPT !.crashed = @ + 1]
      [] tag = "Error" -> [st EXCEPT !.errored = @ + 1]

\* a variant that assigns the signature instead of inserting it
insert_signature_Replace(sigs, h) == {h}

\* state.crash_signature.insert(report.stackhash.to_string())
insert_signature(sigs, h) == sigs \cup {h}

\* a variant of the lock that excludes nobody
Lock_NoExclusion(w) ==
    /\ pc = "pool"
    /\ wpc[w] = "triaged"
    /\ lock' = w
    /\ wpc' = [wpc EXCEPT ![w] = "locked"]
    /\ UNCHANGED <<pc, exit_code, startup_vars, state, queue, cur, outcome,
                   io_log, triage_vars,
                   extract_vars, effects, env, input_vars>>

\* panic_fuse: a closure has panicked, no further test case is started
Fused ==
    \E t \in DOMAIN outcome :
        IsSome(outcome[t]) /\ Unwrap(outcome[t]).tag = "panic"

\* the closure up to the lock: path.to_str().unwrap(), triage_test_case,
\* then format_text_report; a panic ends the closure and sets the fuse
Triage(w) ==
    /\ pc = "pool"
    /\ w <= job_count
    /\ wpc[w] = "idle"
    /\ ~Fused
    /\ \E t \in queue, utf8 \in BOOLEAN, run \in PoolRuns :
         LET result == IF utf8 THEN triage_test_case(run) ELSE Unwound
             report == IF result.tag = "Crash"
                       THEN Some(format_text_report(result.triage))
                       ELSE Nothing
         IN /\ queue' = queue \ {t}
            /\ outcome' = [outcome EXCEPT ![t] =
                             Some([tag |-> result.tag,
                                   stackhash |->
                                       IF IsSome(report)
                                       THEN Unwrap(report).stackhash
                                       ELSE <<>>,
                                   terse_headline |->
                                       IF IsSome(report)
                                       THEN Unwrap(report).terse_headline
                                       ELSE <<>>])]
            /\ IF result = Unwound
               THEN UNCHANGED <<cur, wpc, io_log>>
               ELSE /\ cur' = [cur EXCEPT ![w] = [tc |-> t, run |-> run,
                                                  result |-> result,
                                                  report |-> report,
                                                  fresh |-> FALSE]]
                    /\ wpc' = [wpc EXCEPT ![w] = "triaged"]
                    /\ io_log' =
                         IF ~IsSome(report) THEN io_log
                         ELSE io_log \cup
                              {Logged(w, "format_text_report", t, "report")}
    /\ UNCHANGED <<pc, exit_code, startup_vars, state, lock, triage_vars,
                   extract_vars, effects, env, input_vars>>

\* state.lock().unwrap()
Lock(w) ==
    /\ pc = "pool"
    /\ wpc[w] = "triaged"
    /\ lock = NoInt
    /\ lock' = w
    /\ wpc' = [wpc EXCEPT ![w] = "locked"]
    /\ UNCHANGED <<pc, exit_code, startup_vars, state, queue, cur, outcome,
                   io_log, triage_vars,
                   extract_vars, effects, env, input_vars>>

\* the counter increment of each match arm; the Crash arm also queries the
\* signature set
Count(w) ==
    /\ pc = "pool"
    /\ wpc[w] = "locked"
    /\ LET result == cur[w].result IN
       /\ state' = count_outcome(state, result.tag)
       /\ cur' = [cur EXCEPT ![w].fresh =
                     /\ result.tag = "Crash"
                     /\ Unwrap(cur[w].report).stackhash \notin state.crash_signature]
    /\ wpc' = [wpc EXCEPT ![w] = "counted"]
    /\ UNCHANGED <<pc, exit_code, startup_vars, lock, queue, outcome, io_log,
                   triage_vars,
                   extract_vars, effects, env, input_vars>>

\* a variant that leaves the count of a known error as it is
count_error_NoBump(unique_errors, error) ==
    IF error \in DOMAIN unique_errors
    THEN unique_errors
    ELSE [k \in DOMAIN unique_errors \cup {error} |->
             IF k = error THEN 1 ELSE unique_errors[k]]

\* a variant whose key leaves out the details
count_error_ByMessage(unique_errors, error) ==
    LET same == {k \in DOMAIN unique_errors :
                    /\ k.error_kind = error.error_kind
                    /\ k.error = error.error}
    IN IF same # {}
       THEN [k \in DOMAIN unique_errors |->
                IF k \in same THEN unique_errors[k] + 1 ELSE unique_errors[k]]
       ELSE [k \in DOMAIN unique_errors \cup {error} |->
                IF k = error THEN 1 ELSE unique_errors[k]]

\* state.unique_errors.get_mut(&e), else insert(e, 1): GdbTriageError
\* derives Eq and Hash over error_kind, error and details
count_error(unique_errors, error) ==
    IF error \in DOMAIN unique_errors
    THEN [unique_errors EXCEPT ![error] = @ + 1]
    ELSE [k \in DOMAIN unique_errors \cup {error} |->
             IF k = error THEN 1 ELSE unique_errors[k]]

\* the rest of the match arm: messages, signature insert, report, error map
Record(w) ==
    /\ pc = "pool"
    /\ wpc[w] = "counted"
    /\ LET result == cur[w].result
           t == cur[w].tc
       IN
       CASE result.tag \in {"NoCrash", "Timedout"} ->
              /\ io_log' = IF display_progress THEN io_log
                           ELSE io_log \cup
                                {Logged(w, "write_message", t, "status")}
              /\ UNCHANGED state
         [] result.tag = "Crash" /\ cur[w].fresh ->
              /\ state' = [state EXCEPT !.crash_signature =
                   insert_signature(@, Unwrap(cur[w].report).stackhash)]
              /\ io_log' = io_log \cup
                   {Logged(w, "write_message", t, "headline"),
                    IF args.output_dir
                    THEN Logged(w, "fs_write", t, "report")
                    ELSE Logged(w, "write_message", t, "report")}
         [] result.tag = "Crash" /\ ~cur[w].fresh ->
              /\ io_log' = io_log \cup
                   {Logged(w, "write_message", t, "headline")}
              /\ UNCHANGED state
         [] result.tag = "Error" ->
              /\ io_log' = io_log \cup {Logged(w, "write_message", t, "error")}
              /\ state' = [state EXCEPT !.unique_errors =
                                           count_error(@, result.error)]
    /\ wpc' = [wpc EXCEPT ![w] = "recorded"]
    /\ UNCHANGED <<pc, exit_code, startup_vars, lock, queue, cur, outcome,
                   triage_vars,
                   extract_vars, effects, env, input_vars>>

\* end of the closure: pb.inc, then the guard is dropped
Unlock(w) ==
    /\ pc = "pool"
    /\ wpc[w] = "recorded"
    /\ io_log' = IF display_progress
                 THEN io_log \cup {Logged(w, "pb_inc", cur[w].tc, "progress")}
                 ELSE io_log
    /\ lock' = IF lock = w THEN NoInt ELSE lock
    /\ cur' = [cur EXCEPT ![w] = Idle]
    /\ wpc' = [wpc EXCEPT ![w] = "idle"]
    /\ UNCHANGED <<pc, exit_code, startup_vars, state, queue, outcome,
                   triage_vars,
                   extract_vars, effects, env, input_vars>>

\* for_each resumes the panic of a closure once the running closures have
\* ended: main_wrapper unwinds and the process ends with status 101
Unwind ==
    /\ pc = "pool"
    /\ Fused
    /\ \A w \in Workers : wpc[w] = "idle"
    /\ pc' = "exit"
    /\ exit_code' = 101
    /\ UNCHANGED <<startup_vars, pool_vars, triage_vars,
                   extract_vars, effects, env, input_vars>>

\* a call main_wrapper made: creating a directory, listing the inputs, ...
Effect(op, tc) == [op |-> op, tc |-> tc]

\* the three whole-run messages of the summary
SummaryMessages(st, total) ==
    (IF st.errored = total THEN {Effect("error_all_errored", 0)} ELSE {})
    \cup (IF st.no_crash = total THEN {Effect("warn_none_crashed", 0)}
          ELSE {})
    \cup (IF st.timedout = total THEN {Effect("warn_all_timedout", 0)}
          ELSE {})

\* a variant that returns 1 when every test case errored
Summary_FailsWhenAllErrored ==
    /\ pc = "pool"
    /\ ~Fused
    /\ queue = {}
    /\ \A w \in Workers : wpc[w] = "idle"
    /\ lock = NoInt
    /\ pc' = "exit"
    /\ exit_code' = IF state.errored = ntestcases THEN 1 ELSE 0
    /\ effects' = effects \cup {Effect("summary", 0)}
                          \cup SummaryMessages(state, ntestcases)
    /\ UNCHANGED <<startup_vars, pool_vars, triage_vars, extract_vars, env, input_vars>>

\* after for_each returns: the summary, return 0
Summary ==
    /\ pc = "pool"
    /\ ~Fused
    /\ queue = {}
    /\ \A w \in Workers : wpc[w] = "idle"
    /\ lock = NoInt
    /\ pc' = "exit"
    /\ exit_code' = 0
    /\ effects' = effects \cup {Effect("summary", 0)}
                          \cup SummaryMessages(state, ntestcases)
    /\ UNCHANGED <<startup_vars, pool_vars, triage_vars, extract_vars, env, input_vars>>

EmptyState ==
    [crashed |-> 0, no_crash |-> 0, errored |-> 0, timedout |-> 0,
     crash_signature |-> {}, unique_errors |-> <<>>]

NoRun == RunnerErr("norun")

\* binary_args.iter().any(|s| *s == "@@")
has_atat(binary_args) ==
    \E i \in 1..Len(binary_args) : binary_args[i] = "@@"

\* a variant that substitutes only the first placeholder
expand_filepath_templates_FirstOnly(binary_args, value) ==
    [i \in 1..Len(binary_args) |->
        IF /\ binary_args[i] = "@@"
           /\ \A j \in 1..(i - 1) : binary_args[j] # "@@"
        THEN value ELSE binary_args[i]]

\* for arg in args: push value if *arg == "@@", else push arg
expand_filepath_templates(binary_args, value) ==
    [i \in 1..Len(binary_args) |->
        IF binary_args[i] = "@@" THEN value ELSE binary_args[i]]

\* target command lines: without a placeholder, with one, with two, with a
\* token that only contains "@@", with a token that is a test case's path
Commands ==
    { <<"t">>, <<"t", "@@">>, <<"t", "@@", "-o", "@@">>,
      <<"t", "a@@", "@@">>, <<"t", "/i/1", "@@">> }

\* paths of test cases
Paths == {"/i/1", "/i/2"}

NoMarker == [m |-> MARKER_CHILD_OUTPUT, text |-> <<>>, extra |-> <<>>]

EnvNames == {"LIBC_FATAL_STDERR_", "ASAN_OPTIONS", "ASAN_SYMBOLIZER_PATH"}

DefaultAsanOptions ==
    "abort_on_error=1:allow_user_segv_handler=0:symbolize=1,detect_leaks=0"

\* the environment the process is started with
Environ(asan_options, asan_symbolizer_path) ==
    [n \in EnvNames |->
        [val |-> CASE n = "ASAN_OPTIONS" -> asan_options
                   [] n = "ASAN_SYMBOLIZER_PATH" -> asan_symbolizer_path
                   [] OTHER -> "unset",
         writes |-> 0]]

\* environments AFLTriage is started in: nothing set, ASAN_OPTIONS with and
\* without abort_on_error, ASAN_SYMBOLIZER_PATH set
StartEnvirons ==
    {Environ("unset", "unset"),
     Environ("abort_on_error=true:detect_leaks=0", "/usr/bin/llvm-symbolizer"),
     Environ("detect_leaks=0", "unset")}

\* the environment after a sanity_check that found all three variables
\* unset and addr2line in PATH
CheckedEnviron ==
    [n \in EnvNames |->
        [val |-> CASE n = "ASAN_OPTIONS" -> DefaultAsanOptions
                   [] n = "ASAN_SYMBOLIZER_PATH" -> "/usr/bin/addr2line"
                   [] OTHER -> "1",
         writes |-> 1]]

\* a variant without the floor of one thread
JobCount_NoFloor(jobs, max_threads, n) ==
    Min(IF jobs >= 0 THEN jobs ELSE max_threads, n)

\* a variant that rounds the quotient up
new_thread_count_RoundUp(memkb, rss) == (memkb + rss - 1) \div rss

\* (memkb as usize) / profile_result.debugger_rss
new_thread_count(memkb, rss) == memkb \div rss

\* std::cmp::max(1, std::cmp::min(requested_job_count, all_testcases.len()))
JobCount(jobs, max_threads, n) ==
    LET requested_job_count ==
            IF jobs >= 0 THEN jobs ELSE max_threads
    IN Max(1, Min(requested_job_count, n))

\* the state in which the pool starts: profiling skipped, -j given
Init ==
    /\ pc = "pool"
    /\ exit_code = NoInt
    /\ \E j \in 1..MaxJobs, o \in BOOLEAN, tty \in BOOLEAN :
         \* a terminal matters only with an output directory
         /\ tty => o
         /\ args = [jobs |-> j, skip_profile |-> TRUE, profile_only |-> FALSE,
                    stdin |-> FALSE, command |-> <<"t", "@@">>,
                    output_dir |-> o, debug |-> FALSE]
         /\ sys = [cpus |-> MaxCpus, memkb |-> NoInt, isatty |-> tty,
                   addr2line |-> TRUE]
    /\ ntestcases \in 1..MaxTestcases
    /\ max_recommended_threadcount = sys.cpus
    /\ debugger_rss = 0
    /\ job_count = JobCount(args.jobs, max_recommended_threadcount, ntestcases)
    /\ state = EmptyState
    /\ lock = NoInt
    /\ queue = 1..ntestcases
    /\ wpc = [w \in Workers |-> "idle"]
    /\ cur = [w \in Workers |-> Idle]
    /\ outcome = [t \in 1..ntestcases |-> Nothing]
    /\ io_log = {}
    /\ gdb_run = NoRun
    /\ tri = Nothing
    /\ testcase = "/i/1"
    /\ marker_in = NoMarker
    /\ marker_out = Nothing
    /\ effects = {Effect("sanity_check", 0), Effect("collect_inputs", 0),
                  Effect("build_pool", 0)}
                 \cup (IF args.output_dir THEN {Effect("create_dir", 0)}
                       ELSE {})
    /\ env = CheckedEnviron
    /\ input_paths = <<>>
    /\ processed_inputs = <<>>

Next ==
    \/ \E w \in Workers : Triage(w)
    \/ \E w \in Workers : Lock(w)
    \/ \E w \in Workers : Count(w)
    \/ \E w \in Workers : Record(w)
    \/ \E w \in Workers : Unlock(w)
    \/ Unwind
    \/ Summary

Spec == Init /\ [][Next]_vars

-----------------------------------------------------------------------------
(* main_wrapper from its first line to the pool's construction *)

Exit(code) ==
    /\ pc' = "exit"
    /\ exit_code' = code

\* env::set_var(name, value)
set_var(e, name, value) ==
    [e EXCEPT ![name] = [val |-> value, writes |-> @.writes + 1]]

\* Regex::new(r"abort_on_error=(1|true)").find(&val), on the values of
\* ASAN_OPTIONS the model draws
has_abort_on_error(val) ==
    val \in {"abort_on_error=1", "abort_on_error=true:detect_leaks=0"}

\* a variant that sets LIBC_FATAL_STDERR_ a second time before it returns
SanityCheck_SetsLibcTwice ==
    /\ pc = "start"
    /\ \E ok \in BOOLEAN :
         LET libc == set_var(env, "LIBC_FATAL_STDERR_", "1")
             asan == IF libc["ASAN_OPTIONS"].val = "unset"
                     THEN set_var(libc, "ASAN_OPTIONS", DefaultAsanOptions)
                     ELSE libc
             symbolizer ==
                     IF /\ asan["ASAN_SYMBOLIZER_PATH"].val = "unset"
                        /\ sys.addr2line
                     THEN set_var(asan, "ASAN_SYMBOLIZER_PATH",
                                  "/usr/bin/addr2line")
                     ELSE asan
         IN
         IF ~ok
         THEN /\ Exit(1)
              /\ effects' = effects \cup {Effect("sanity_check", 0),
                                           Effect("error_sanity", 0)}
              /\ UNCHANGED env
         ELSE IF /\ env["ASAN_OPTIONS"].val # "unset"
                 /\ ~has_abort_on_error(env["ASAN_OPTIONS"].val)
         THEN /\ Exit(1)
              /\ effects' = effects \cup {Effect("sanity_check", 0),
                                           Effect("error_sanity", 0)}
              /\ env' = libc
         ELSE /\ pc' = "sanity_ok" /\ UNCHANGED exit_code
              /\ effects' = effects \cup {Effect("sanity_check", 0)}
              /\ env' = set_var(symbolizer, "LIBC_FATAL_STDERR_", "1")
    /\ UNCHANGED <<startup_vars, pool_vars, triage_vars, extract_vars,
                   input_vars>>

\* sanity_check: the binary and the debugger, then LIBC_FATAL_STDERR_,
\* ASAN_OPTIONS and ASAN_SYMBOLIZER_PATH
SanityCheck ==
    /\ pc = "start"
    /\ \E ok \in BOOLEAN :
         LET libc == set_var(env, "LIBC_FATAL_STDERR_", "1")
             asan == IF libc["ASAN_OPTIONS"].val = "unset"
                     THEN set_var(libc, "ASAN_OPTIONS", DefaultAsanOptions)
                     ELSE libc
             symbolizer ==
                     IF /\ asan["ASAN_SYMBOLIZER_PATH"].val = "unset"
                        /\ sys.addr2line
                     THEN set_var(asan, "ASAN_SYMBOLIZER_PATH",
                                  "/usr/bin/addr2line")
                     ELSE asan
         IN
         IF ~ok
         THEN /\ Exit(1)
              /\ effects' = effects \cup {Effect("sanity_check", 0),
                                           Effect("error_sanity", 0)}
              /\ UNCHANGED env
         ELSE IF /\ env["ASAN_OPTIONS"].val # "unset"
                 /\ ~has_abort_on_error(env["ASAN_OPTIONS"].val)
         THEN /\ Exit(1)
              /\ effects' = effects \cup {Effect("sanity_check", 0),
                                           Effect("error_sanity", 0)}
              /\ env' = libc
         ELSE /\ pc' = "sanity_ok" /\ UNCHANGED exit_code
              /\ effects' = effects \cup {Effect("sanity_check", 0)}
              /\ env' = symbolizer
    /\ UNCHANGED <<startup_vars, pool_vars, triage_vars, extract_vars,
                   input_vars>>

\* a variant that only warns about the missing placeholder
CheckPlaceholder_WarnOnly ==
    /\ pc = "sanity_ok"
    /\ IF ~args.stdin /\ ~has_atat(args.command)
       THEN /\ pc' = "placeholder_ok" /\ UNCHANGED exit_code
            /\ effects' = effects \cup {Effect("error_placeholder", 0)}
       ELSE /\ pc' = "placeholder_ok" /\ UNCHANGED exit_code
            /\ UNCHANGED effects
    /\ UNCHANGED <<startup_vars, pool_vars, triage_vars, extract_vars, env, input_vars>>

\* the @@ placeholder is required unless --stdin
CheckPlaceholder ==
    /\ pc = "sanity_ok"
    /\ IF ~args.stdin /\ ~has_atat(args.command)
       THEN /\ Exit(1)
            /\ effects' = effects \cup {Effect("error_placeholder", 0)}
       ELSE /\ pc' = "placeholder_ok" /\ UNCHANGED exit_code
            /\ UNCHANGED effects
    /\ UNCHANGED <<startup_vars, pool_vars, triage_vars, extract_vars, env, input_vars>>

\* create_dir of the output directory; AlreadyExists is accepted
CreateOutputDir ==
    /\ pc = "placeholder_ok"
    /\ \E created \in BOOLEAN :
         IF args.output_dir /\ ~created
         THEN /\ Exit(1)
              /\ effects' = effects \cup {Effect("create_dir", 0),
                                           Effect("error_output_dir", 0)}
         ELSE /\ pc' = "output_ok" /\ UNCHANGED exit_code
              /\ effects' = IF args.output_dir
                            THEN effects \cup {Effect("create_dir", 0)}
                            ELSE effects
    /\ UNCHANGED <<startup_vars, pool_vars, triage_vars, extract_vars, env, input_vars>>

\* a variant that goes on without test cases
CollectInputs_AllowsEmpty ==
    /\ pc = "output_ok"
    /\ \E n \in 0..MaxTestcases :
         /\ ntestcases' = n
         /\ IF n < 0
            THEN /\ Exit(1)
                 /\ effects' = effects \cup {Effect("collect_inputs", 0),
                                              Effect("error_no_testcases", 0)}
            ELSE /\ pc' = "collected" /\ UNCHANGED exit_code
                 /\ effects' = effects \cup {Effect("collect_inputs", 0)}
    /\ UNCHANGED <<args, sys, max_recommended_threadcount, debugger_rss,
                   job_count, pool_vars, triage_vars, extract_vars, env, input_vars>>

\* determine_input_type and collect_input_testcases
CollectInputs ==
    /\ pc = "output_ok"
    /\ \E n \in 0..MaxTestcases :
         /\ ntestcases' = n
         /\ IF n = 0
            THEN /\ Exit(1)
                 /\ effects' = effects \cup {Effect("collect_inputs", 0),
                                              Effect("error_no_testcases", 0)}
            ELSE /\ pc' = "collected" /\ UNCHANGED exit_code
                 /\ effects' = effects \cup {Effect("collect_inputs", 0)}
    /\ UNCHANGED <<args, sys, max_recommended_threadcount, debugger_rss,
                   job_count, pool_vars, triage_vars, extract_vars, env, input_vars>>

\* --child-output-lines must parse; --timeout falls back to 60000
ParseOptions ==
    /\ pc = "collected"
    /\ \E parsed \in BOOLEAN :
         IF parsed
         THEN /\ pc' = "options_ok" /\ UNCHANGED exit_code
              /\ UNCHANGED effects
         ELSE /\ Exit(1)
              /\ effects' = effects \cup {Effect("error_child_output_lines",
                                                  0)}
    /\ UNCHANGED <<startup_vars, pool_vars, triage_vars, extract_vars, env, input_vars>>

\* profile_target on the first test case, then the memory limit
Profile ==
    /\ pc = "options_ok"
    /\ IF args.skip_profile
       THEN /\ pc' = "profiled"
            /\ UNCHANGED <<exit_code, max_recommended_threadcount,
                           debugger_rss, effects>>
       ELSE \E utf8 \in BOOLEAN,
               readable \in BOOLEAN,
               process_result \in {"none", "TimedOut", "Other"},
               run \in PoolRuns,
               rss_delta \in 0..MaxRss :
            LET triage_result == triage_test_case(run)
                rss == Max(rss_delta, 1)
                threads == new_thread_count(sys.memkb, rss)
            IN
            IF ~utf8
            THEN /\ Exit(101)
                 /\ effects' = effects \cup {Effect("panic", 1)}
                 /\ UNCHANGED <<max_recommended_threadcount, debugger_rss>>
            ELSE IF triage_result = Unwound /\ ~(args.stdin /\ ~readable)
            THEN /\ Exit(101)
                 /\ effects' = effects \cup {Effect("profile_target", 1),
                                              Effect("panic", 1)}
                 /\ UNCHANGED <<max_recommended_threadcount, debugger_rss>>
            ELSE
            IF \/ args.stdin /\ ~readable
               \/ process_result = "Other"
               \/ triage_result.tag = "Error"
            THEN /\ Exit(1)
                 /\ effects' = effects \cup {Effect("profile_target", 1),
                                              Effect("error_profile", 1)}
                 /\ UNCHANGED <<max_recommended_threadcount, debugger_rss>>
            ELSE /\ pc' = "profiled"
                 /\ effects' = effects \cup {Effect("profile_target", 1)}
                 /\ UNCHANGED exit_code
                 /\ debugger_rss' = rss
                 /\ max_recommended_threadcount' =
                      IF /\ sys.memkb # NoInt
                         /\ threads < max_recommended_threadcount
                      THEN threads
                      ELSE max_recommended_threadcount
    /\ UNCHANGED <<args, sys, ntestcases, job_count, pool_vars, triage_vars,
                   extract_vars, env, input_vars>>

\* --profile-only returns 0 here
ProfileOnly ==
    /\ pc = "profiled"
    /\ args.profile_only
    /\ Exit(0)
    /\ UNCHANGED <<startup_vars, pool_vars, triage_vars,
                   extract_vars, effects, env, input_vars>>

\* a variant that goes on to the pool under --profile-only
BuildPool_IgnoresProfileOnly ==
    /\ pc = "profiled"
    /\ job_count' = JobCount(args.jobs, max_recommended_threadcount,
                             ntestcases)
    /\ state' = EmptyState
    /\ queue' = 1..ntestcases
    /\ outcome' = [t \in 1..ntestcases |-> Nothing]
    /\ pc' = "pool"
    /\ effects' = effects \cup {Effect("build_pool", 0)}
    /\ UNCHANGED <<exit_code, args, sys, ntestcases,
                   max_recommended_threadcount, debugger_rss, lock, wpc, cur,
                   io_log, triage_vars, extract_vars, env, input_vars>>

\* the job count, build_global, the fresh TriageState
BuildPool ==
    /\ pc = "profiled"
    /\ ~args.profile_only
    /\ job_count' = JobCount(args.jobs, max_recommended_threadcount,
                             ntestcases)
    /\ state' = EmptyState
    /\ queue' = 1..ntestcases
    /\ outcome' = [t \in 1..ntestcases |-> Nothing]
    /\ pc' = "pool"
    /\ effects' = effects \cup {Effect("build_pool", 0)}
    /\ UNCHANGED <<exit_code, args, sys, ntestcases,
                   max_recommended_threadcount, debugger_rss, lock, wpc, cur,
                   io_log, triage_vars, extract_vars, env, input_vars>>

\* the command lines startup tells apart: without and with a placeholder
StartupCommands == {<<"t">>, <<"t", "@@">>}

InitStartup ==
    /\ pc = "start"
    /\ exit_code = NoInt
    /\ args \in [jobs : {NoInt, BadInt} \cup 0..MaxJobsArg,
                 skip_profile : BOOLEAN, profile_only : BOOLEAN,
                 stdin : BOOLEAN, command : StartupCommands,
                 output_dir : BOOLEAN, debug : {FALSE}]
    /\ ~(args.skip_profile /\ args.profile_only)
    /\ sys \in [cpus : 1..MaxCpus, memkb : {NoInt} \cup 0..MaxMemKb,
                isatty : BOOLEAN, addr2line : {TRUE}]
          \cup {[cpus |-> 1, memkb |-> NoInt, isatty |-> FALSE,
                 addr2line |-> FALSE]}
    /\ ntestcases = 0
    /\ max_recommended_threadcount = sys.cpus
    /\ debugger_rss = 0
    /\ job_count = 0
    /\ state = EmptyState
    /\ lock = NoInt
    /\ queue = {}
    /\ wpc = [w \in Workers |-> "idle"]
    /\ cur = [w \in Workers |-> Idle]
    /\ outcome = <<>>
    /\ io_log = {}
    /\ gdb_run = NoRun
    /\ tri = Nothing
    /\ testcase = "/i/1"
    /\ marker_in = NoMarker
    /\ marker_out = Nothing
    /\ effects = {}
    /\ env \in StartEnvirons
    \* a preset environment is tried with the default job count only
    /\ env # Environ("unset", "unset") => args.jobs = NoInt /\ sys.cpus = 1
    /\ input_paths = <<>>
    /\ processed_inputs = <<>>

NextStartup ==
    \/ SanityCheck
    \/ CheckPlaceholder
    \/ CreateOutputDir
    \/ CollectInputs
    \/ ParseOptions
    \/ Profile
    \/ ProfileOnly
    \/ BuildPool

SpecStartup == InitStartup /\ [][NextStartup]_vars

-----------------------------------------------------------------------------
(* main_wrapper from its first statement to its return: startup followed by
   the pool, with -j given and the profiler either skipped or run alone *)

InitRun ==
    /\ pc = "start"
    /\ exit_code = NoInt
    /\ \E j \in 1..MaxJobs, o \in BOOLEAN, only \in BOOLEAN,
          c \in StartupCommands :
         args = [jobs |-> j, skip_profile |-> ~only, profile_only |-> only,
                 stdin |-> FALSE, command |-> c, output_dir |-> o,
                 debug |-> FALSE]
    /\ sys = [cpus |-> MaxCpus, memkb |-> NoInt, isatty |-> FALSE,
              addr2line |-> TRUE]
    /\ ntestcases = 0
    /\ max_recommended_threadcount = sys.cpus
    /\ debugger_rss = 0
    /\ job_count = 0
    /\ state = EmptyState
    /\ lock = NoInt
    /\ queue = {}
    /\ wpc = [w \in Workers |-> "idle"]
    /\ cur = [w \in Workers |-> Idle]
    /\ outcome = <<>>
    /\ io_log = {}
    /\ gdb_run = NoRun
    /\ tri = Nothing
    /\ testcase = "/i/1"
    /\ marker_in = NoMarker
    /\ marker_out = Nothing
    /\ effects = {}
    /\ env = Environ("unset", "unset")
    /\ input_paths = <<>>
    /\ processed_inputs = <<>>

NextRun == NextStartup \/ Next

SpecRun == InitRun /\ [][NextRun]_vars

-----------------------------------------------------------------------------
(* The classification of the -i paths: the loop of main_wrapper that calls
   determine_input_type on each path in turn *)

MaxInputs == 2

\* what the file system holds at a path: `meta` is the file type lstat
\* reports ("none" when it fails), `target` the type the path resolves to
\* when links are followed, the three flags the entries of that directory
FileTypes == {"file", "dir", "other"}

InputPaths ==
    {p \in [meta : {"none", "symlink"} \cup FileTypes,
            target : {"none"} \cup FileTypes,
            fuzzer_stats : BOOLEAN, queue : BOOLEAN, crashes : BOOLEAN] :
        /\ p.meta # "symlink" => p.target = p.meta
        /\ p.target # "dir" =>
             ~p.fuzzer_stats /\ ~p.queue /\ ~p.crashes}

\* input.join(name).exists(): follows links
join_exists(input, name) ==
    /\ input.target = "dir"
    /\ CASE name = "fuzzer_stats" -> input.fuzzer_stats
         [] name = "queue" -> input.queue
         [] name = "crashes" -> input.crashes

\* lstat, regular file, the three AFL entries, directory, in this order
determine_input_type(input) ==
    IF input.meta = "none" THEN "Missing"
    ELSE IF input.meta = "file" THEN "Single"
    ELSE IF \/ join_exists(input, "fuzzer_stats")
            \/ join_exists(input, "queue")
            \/ join_exists(input, "crashes")
    THEN "AflDir"
    ELSE IF input.meta = "dir" THEN "PlainDir"
    ELSE "Unknown"

InitInput ==
    /\ pc = "output_ok"
    /\ exit_code = NoInt
    /\ args = [jobs |-> NoInt, skip_profile |-> TRUE, profile_only |-> FALSE,
               stdin |-> FALSE, command |-> <<"t", "@@">>,
               output_dir |-> FALSE, debug |-> FALSE]
    /\ sys = [cpus |-> 1, memkb |-> NoInt, isatty |-> FALSE,
              addr2line |-> TRUE]
    /\ ntestcases = 0
    /\ max_recommended_threadcount = 1
    /\ debugger_rss = 0
    /\ job_count = 0
    /\ state = EmptyState
    /\ lock = NoInt
    /\ queue = {}
    /\ wpc = [w \in Workers |-> "idle"]
    /\ cur = [w \in Workers |-> Idle]
    /\ outcome = <<>>
    /\ io_log = {}
    /\ gdb_run = NoRun
    /\ tri = Nothing
    /\ testcase = "/i/1"
    /\ marker_in = NoMarker
    /\ marker_out = Nothing
    /\ effects = {}
    /\ env = CheckedEnviron
    /\ \E n \in 1..MaxInputs : input_paths \in [1..n -> InputPaths]
    /\ processed_inputs = <<>>

\* one turn of `for input in input_paths`
ProcessInput ==
    /\ pc = "output_ok"
    /\ Len(processed_inputs) < Len(input_paths)
    /\ LET path == input_paths[Len(processed_inputs) + 1] IN
       processed_inputs' =
           Append(processed_inputs,
                  [ty |-> determine_input_type(path), path |-> path])
    /\ UNCHANGED <<pc, exit_code, startup_vars, pool_vars, triage_vars,
                   extract_vars, effects, env, input_paths>>

NextInput == ProcessInput

SpecInput == InitInput /\ [][NextInput]_vars

-----------------------------------------------------------------------------
(* triage_test_case on its own, over every output gdb may produce *)

ChildTexts == {<<>>, <<"o", NL>>}
Payloads == {<<>>, <<"j", NL>>}
            \cup {Json(c, x) : c \in {"S", "N"}, x \in {"", "0", "1"}}
Diagnostics == {<<>>, <<"e", NL>>, <<"e", NL, "f">>}

GdbStdouts == NoMarkerText
              \cup {GdbStream(c, p) : c \in ChildTexts, p \in Payloads}
GdbStderrs == NoMarkerText
              \cup {GdbStream(c, d) : c \in ChildTexts, d \in Diagnostics}

GdbRuns ==
    {RunnerErr("TimedOut"), RunnerErr("Other")}
    \cup {RunnerOk(o, e, st) :
            o \in GdbStdouts, e \in GdbStderrs, st \in {0, 1}}

InitTriage ==
    /\ pc = "triage"
    /\ exit_code = NoInt
    /\ \E c \in Commands, input_stdin \in BOOLEAN :
         args = [jobs |-> NoInt, skip_profile |-> TRUE, profile_only |-> FALSE,
                 stdin |-> input_stdin, command |-> c, output_dir |-> FALSE,
                 debug |-> FALSE]
    /\ sys = [cpus |-> 1, memkb |-> NoInt, isatty |-> FALSE,
              addr2line |-> TRUE]
    /\ ntestcases = 1
    /\ max_recommended_threadcount = 1
    /\ debugger_rss = 0
    /\ job_count = 1
    /\ state = EmptyState
    /\ lock = NoInt
    /\ queue = {}
    /\ wpc = [w \in Workers |-> "idle"]
    /\ cur = [w \in Workers |-> Idle]
    /\ outcome = <<>>
    /\ io_log = {}
    /\ gdb_run \in GdbRuns
    /\ tri = Nothing
    /\ testcase \in Paths
    /\ marker_in = NoMarker
    /\ marker_out = Nothing
    /\ effects = {}
    /\ env = CheckedEnviron
    /\ input_paths = <<>>
    /\ processed_inputs = <<>>

\* make_gdb_marker!: the python statement that writes the tag and a newline
\* to both streams
make_gdb_marker(tag) ==
    <<"python [(x.write('">> \o tag \o
    <<"\\n'),x.flush()) for x in [sys.stdout, sys.stderr]]">>

\* [String]::join(" ")
RECURSIVE JoinSpace(_)
JoinSpace(words) ==
    IF words = <<>> THEN <<>>
    ELSE IF Len(words) = 1 THEN <<words[1]>>
    ELSE <<words[1], " ">> \o JoinSpace(Tail(words))

\* format!("run {} < \"{}\"", &prog_args[1..].join(" "), file), or "run"
gdb_run_command(prog_args, input_file) ==
    IF IsSome(input_file)
    THEN <<"run ">> \o JoinSpace(Tail(prog_args)) \o
         <<" < \"", Unwrap(input_file), "\"">>
    ELSE <<"run">>

TriageScriptPath == "/tmp/triage.py"

\* a variant that sources the triage script without invoking gdbtriage
gdb_args_NoEntryCommand(prog_args, input_file) ==
    << <<"--nx">>, <<"--batch">>,
       <<"-iex">>, <<"set print inferior-events off">>,
       <<"-ex">>, make_gdb_marker(MARKER_CHILD_OUTPUT.start),
       <<"-ex">>, <<"set logging file /dev/null">>,
       <<"-ex">>, <<"set logging redirect on">>,
       <<"-ex">>, <<"set logging on">>,
       <<"-ex">>, gdb_run_command(prog_args, input_file),
       <<"-ex">>, <<"set logging redirect off">>,
       <<"-ex">>, <<"set logging off">>,
       <<"-ex">>, make_gdb_marker(MARKER_CHILD_OUTPUT.end),
       <<"-ex">>, make_gdb_marker(MARKER_BACKTRACE.start),
       <<"-x">>, <<TriageScriptPath>>,
       <<"-ex">>, make_gdb_marker(MARKER_BACKTRACE.end),
       <<"--args">> >>

\* the vec_of_strings! of triage_program; every argument is a text
gdb_args(prog_args, input_file) ==
    << <<"--nx">>, <<"--batch">>,
       <<"-iex">>, <<"set print inferior-events off">>,
       <<"-ex">>, make_gdb_marker(MARKER_CHILD_OUTPUT.start),
       <<"-ex">>, <<"set logging file /dev/null">>,
       <<"-ex">>, <<"set logging redirect on">>,
       <<"-ex">>, <<"set logging on">>,
       <<"-ex">>, gdb_run_command(prog_args, input_file),
       <<"-ex">>, <<"set logging redirect off">>,
       <<"-ex">>, <<"set logging off">>,
       <<"-ex">>, make_gdb_marker(MARKER_CHILD_OUTPUT.end),
       <<"-ex">>, make_gdb_marker(MARKER_BACKTRACE.start),
       <<"-x">>, <<TriageScriptPath>>,
       <<"-ex">>, <<"gdbtriage">>,
       <<"-ex">>, make_gdb_marker(MARKER_BACKTRACE.end),
       <<"--args">> >>

\* &[&gdb_args[..], prog_args].concat()
gdb_cmdline(prog_args, input_file) ==
    gdb_args(prog_args, input_file) \o
    [i \in 1..Len(prog_args) |-> <<prog_args[i]>>]

\* Some(testcase) when the test case goes to the target's stdin
input_file_of(input_stdin, path) == IF input_stdin THEN Some(path) ELSE Nothing

TriageTestCase ==
    /\ pc = "triage"
    /\ tri' = Some([prog_args |->
                        expand_filepath_templates(args.command, testcase),
                    gdb_cmdline |->
                        gdb_cmdline(
                            expand_filepath_templates(args.command, testcase),
                            input_file_of(args.stdin, testcase)),
                    program |-> triage_program(gdb_run),
                    result |-> triage_test_case(gdb_run)])
    /\ pc' = "triaged"
    /\ UNCHANGED <<exit_code, startup_vars, pool_vars, gdb_run, testcase,
                   extract_vars, effects, env, input_vars>>

NextTriage == TriageTestCase

SpecTriage == InitTriage /\ [][NextTriage]_vars

-----------------------------------------------------------------------------
(* DbgMarker::extract on its own, over texts put together from pieces *)

\* what a captured stream is made of: the marker's tags, a newline, a
\* character of one byte, one of two bytes, and the two halves of the end tag
Pieces(m) ==
    { m.start, m.end, <<NL>>, <<"x">>, TwoByteChar,
      SubSeq(m.end, 1, 2), SubSeq(m.end, 3, Len(m.end)) }

\* the texts made of at most k pieces
RECURSIVE Concats(_, _)
Concats(P, k) ==
    IF k = 0 THEN {<<>>}
    ELSE LET shorter == Concats(P, k - 1)
         IN shorter \cup {t \o q : t \in shorter, q \in P}

\* what may follow a text
ExtraTexts(m) ==
    { <<>>, <<"x">>, <<NL, "x">>, SubSeq(m.end, 3, Len(m.end)), m.end,
      m.start }

InitExtract ==
    /\ pc = "extract"
    /\ exit_code = NoInt
    /\ args = [jobs |-> NoInt, skip_profile |-> TRUE, profile_only |-> FALSE,
               stdin |-> FALSE, command |-> <<"t", "@@">>,
               output_dir |-> FALSE, debug |-> FALSE]
    /\ sys = [cpus |-> 1, memkb |-> NoInt, isatty |-> FALSE,
              addr2line |-> TRUE]
    /\ ntestcases = 1
    /\ max_recommended_threadcount = 1
    /\ debugger_rss = 0
    /\ job_count = 1
    /\ state = EmptyState
    /\ lock = NoInt
    /\ queue = {}
    /\ wpc = [w \in Workers |-> "idle"]
    /\ cur = [w \in Workers |-> Idle]
    /\ outcome = <<>>
    /\ io_log = {}
    /\ gdb_run = NoRun
    /\ tri = Nothing
    /\ testcase = "/i/1"
    /\ \E m \in {MARKER_CHILD_OUTPUT, MARKER_BACKTRACE} :
         \E t \in Concats(Pieces(m), MaxPieces), x \in ExtraTexts(m) :
            marker_in = [m |-> m, text |-> t, extra |-> x]
    /\ marker_out = Nothing
    /\ effects = {}
    /\ env = CheckedEnviron
    /\ input_paths = <<>>
    /\ processed_inputs = <<>>

\* extract applied to the text, and to the text followed by the extra
ExtractMarker ==
    /\ pc = "extract"
    /\ marker_out' =
         Some([plain |-> extract(marker_in.m, marker_in.text),
               extended |-> extract(marker_in.m,
                                    marker_in.text \o marker_in.extra)])
    /\ pc' = "extracted"
    /\ UNCHANGED <<exit_code, startup_vars, pool_vars, triage_vars,
                   marker_in, effects, env, input_vars>>

NextExtract == ExtractMarker

SpecExtract == InitExtract /\ [][NextExtract]_vars

-----------------------------------------------------------------------------
(* Properties of the parallel triage loop (Spec) *)

Total == state.crashed + state.no_crash + state.timedout + state.errored

\* the test cases whose match arm has begun: taken from the queue, and the
\* worker that took them is past the counter increment
Recorded ==
    {t \in 1..ntestcases :
        /\ t \notin queue
        /\ Unwrap(outcome[t]).tag # "panic"
        /\ \A w \in Workers :
             cur[w].tc = t => wpc[w] \in {"counted", "recorded"}}

CrashedCases ==
    {t \in 1..ntestcases : IsSome(outcome[t]) /\ Unwrap(outcome[t]).tag = "Crash"}

Hashes == {Unwrap(outcome[t]).stackhash : t \in CrashedCases}

CrashesOf(h) == {t \in CrashedCases : Unwrap(outcome[t]).stackhash = h}

\* reports written to a file or to the terminal for stackhash h
ReportsOf(h) ==
    {e \in io_log : /\ e.op \in {"fs_write", "write_message"}
                    /\ e.what = "report"
                    /\ e.tc \in CrashesOf(h)}

\* C1: under every interleaving the four counters sum to the number of test
\* cases whose outcome has been recorded so far, and to testcases.len() once
\* the pool has finished (for_each has returned).
C1_CountsSumToRecorded ==
    /\ Total = Cardinality(Recorded)
    /\ (pc = "exit" /\ ~Fused) => Total = ntestcases

C1_Witness ==
    /\ pc = "exit"
    /\ ntestcases = 2
    /\ state.no_crash = 1
    /\ state.timedout = 1

\* C2: the signature set never holds more entries than crashes were counted.
C2_SignaturesAtMostCrashed ==
    Cardinality(state.crash_signature) <= state.crashed

C2_Witness ==
    /\ state.crashed = 2
    /\ Cardinality(state.crash_signature) = 1

\* C3: no step removes a signature from the set.
C3_SignaturesGrow ==
    [][state.crash_signature \subseteq state'.crash_signature]_vars

C3_Witness == Cardinality(state.crash_signature) = 2

\* C4: of the test cases that crash with one stackhash exactly one, the one
\* that finds the signature absent under the lock, inserts it and emits the
\* report; the others are suppressed; every crash is counted.
C4_OneReportPerSignature ==
    /\ \A h \in Hashes :
         /\ Cardinality(ReportsOf(h)) <= 1
         /\ h \in state.crash_signature <=> Cardinality(ReportsOf(h)) = 1
    /\ \A w \in Workers :
         (wpc[w] \in {"counted", "recorded"} /\ cur[w].result.tag = "Crash") =>
            LET h == Unwrap(cur[w].report).stackhash
                mine == {e \in ReportsOf(h) : e.tc = cur[w].tc}
            IN /\ (cur[w].fresh /\ wpc[w] = "counted") => ReportsOf(h) = {}
               /\ (cur[w].fresh /\ wpc[w] = "recorded") =>
                     (mine # {} /\ ReportsOf(h) = mine)
               /\ ~cur[w].fresh => (mine = {} /\ h \in state.crash_signature)
    /\ pc = "exit" =>
         /\ state.crashed = Cardinality(CrashedCases)
         /\ Cardinality(state.crash_signature) = Cardinality(Hashes)
         /\ \A h \in Hashes : Cardinality(ReportsOf(h)) = 1

C4_Witness ==
    /\ pc = "exit"
    /\ state.crashed = 2
    /\ Cardinality(state.crash_signature) = 1
    /\ \E h \in Hashes :
         Cardinality(CrashesOf(h)) = 2 /\ Cardinality(ReportsOf(h)) = 1

\* C5: no report rendering, report file write or terminal/log output is
\* performed by a worker while it holds the aggregate-state lock.
C5_NoOutputUnderLock == \A e \in io_log : ~e.locked

-----------------------------------------------------------------------------
(* Properties of the start of main_wrapper (SpecStartup) *)

\* the -j value when one was given and parsed, else the autotuned limit
Requested ==
    IF args.jobs >= 0 THEN args.jobs ELSE max_recommended_threadcount

\* C6 as stated: the pool has max(1, min(requested_jobs, max_workers,
\* testcases.len())) threads, so -j never raises it above max_workers.
C6_PoolSizeCappedByMaxWorkers ==
    pc = "pool" =>
        job_count =
            Max(1, Min(Min(Requested, max_recommended_threadcount), ntestcases))

\* C6 amended: the pool has max(1, min(requested, testcases.len())) threads,
\* where requested is the -j value when given and otherwise max_workers; a -j
\* value above max_workers is used as it is.
C6_PoolSize ==
    pc = "pool" =>
        /\ Requested < 1 => job_count = 1
        /\ (1 <= Requested /\ Requested <= ntestcases) => job_count = Requested
        /\ Requested > ntestcases => job_count = ntestcases

C6_Witness ==
    /\ pc = "pool"
    /\ args.jobs > max_recommended_threadcount
    /\ job_count = args.jobs

Profiled == debugger_rss > 0 /\ sys.memkb # NoInt

\* C7 as stated: after a profile with readable memory the pool's worker count
\* satisfies workers * debugger_rss <= available_kb, with max_workers =
\* floor(available_kb / debugger_rss) capped at the CPU count.
C7_MemoryBoundAlways ==
    (pc = "pool" /\ Profiled) =>
        /\ job_count * debugger_rss <= sys.memkb
        /\ debugger_rss >= 1
        /\ max_recommended_threadcount =
             Min(sys.cpus, sys.memkb \div debugger_rss)

\* C7 amended: the bound workers * debugger_rss <= available_kb holds when
\* no -j value above max_workers was given and available_kb >= debugger_rss.
C7_MemoryBound ==
    (pc = "pool" /\ Profiled) =>
        /\ debugger_rss >= 1
        /\ max_recommended_threadcount =
             Min(sys.cpus, sys.memkb \div debugger_rss)
        /\ (/\ args.jobs < 0 \/ args.jobs <= max_recommended_threadcount
            /\ sys.memkb >= debugger_rss)
              => job_count * debugger_rss <= sys.memkb

C7_Witness ==
    /\ pc = "pool"
    /\ Profiled
    /\ args.jobs = NoInt
    /\ sys.cpus = 2 /\ ntestcases = 2
    /\ sys.memkb >= debugger_rss
    /\ max_recommended_threadcount = 1
    /\ job_count = 1

-----------------------------------------------------------------------------
(* Properties of the outcome classification *)

Tags == {MARKER_CHILD_OUTPUT.start, MARKER_CHILD_OUTPUT.end,
         MARKER_BACKTRACE.start, MARKER_BACKTRACE.end}

\* gdb ran and printed no tag on either stream
NoMarkers(run) ==
    /\ run.err = "none"
    /\ \A tag \in Tags :
         Find(run.stdout, tag) = -1 /\ Find(run.stderr, tag) = -1

Counting(w) == wpc[w] = "locked" /\ wpc'[w] = "counted"
Recording(w) == wpc[w] = "counted" /\ wpc'[w] = "recorded"

\* C8: a TimedOut of the process runner becomes a Timeout error and a
\* Timedout outcome that bumps only the timedout counter and leaves the
\* unique-error map alone; any other runner error becomes a Command error
\* that bumps errored.
C8_TimeoutIsNotAnError ==
    [][\A w \in Workers :
        /\ (cur[w].run.err = "TimedOut" /\ Counting(w)) =>
              /\ ~triage_program(cur[w].run).ok
              /\ triage_program(cur[w].run).err.error_kind = "Timeout"
              /\ cur[w].result = Timedout
              /\ state'.timedout = state.timedout + 1
              /\ state'.errored = state.errored
              /\ state'.crashed = state.crashed
              /\ state'.no_crash = state.no_crash
              /\ state'.unique_errors = state.unique_errors
        /\ (cur[w].run.err = "TimedOut" /\ Recording(w)) => state' = state
        /\ (cur[w].run.err = "Other" /\ Counting(w)) =>
              /\ cur[w].result.tag = "Error"
              /\ cur[w].result.error.error_kind = "Command"
              /\ state'.errored = state.errored + 1
              /\ state'.timedout = state.timedout
      ]_vars

C8_Witness ==
    /\ state.timedout = 1
    /\ state.errored = 1
    /\ \E e \in DOMAIN state.unique_errors :
         e.error = "Failed to execute GDB command"
    /\ \E w \in Workers : cur[w].run.err = "TimedOut" /\ wpc[w] = "recorded"

\* C9: output without markers gives the Command error "Could not extract
\* child STDOUT" whatever gdb's exit status, and the test case is counted as
\* errored only.
C9_NoMarkersIsCommandError ==
    [][\A w \in Workers :
        (NoMarkers(cur[w].run) /\ Counting(w)) =>
            /\ cur[w].result.tag = "Error"
            /\ cur[w].result.error.error_kind = "Command"
            /\ cur[w].result.error.error = "Could not extract child STDOUT"
            /\ state'.errored = state.errored + 1
            /\ state'.crashed = state.crashed
            /\ state'.no_crash = state.no_crash
            /\ state'.timedout = state.timedout
      ]_vars

C9_Witness ==
    /\ state.errored = 2
    /\ state.crashed = 0 /\ state.no_crash = 0
    /\ \E e \in DOMAIN state.unique_errors :
         /\ e.error = "Could not extract child STDOUT"
         /\ state.unique_errors[e] = 2
    /\ \E w \in Workers :
         /\ NoMarkers(cur[w].run) /\ cur[w].run.status = 1
         /\ wpc[w] = "recorded"

\* the child output a well-formed gdb stream carries
ChildOf(text) ==
    CHOOSE c \in ChildTexts :
        \E p \in Payloads \cup Diagnostics : text = GdbStream(c, p)

-----------------------------------------------------------------------------
(* Properties of triage_program's handling of the backtrace regions *)

\* the stream carries both marked regions
WellFormed(text) ==
    \E c \in ChildTexts, p \in Payloads \cup Diagnostics :
        text = GdbStream(c, p)

\* the payload a well-formed stream carries between the backtrace tags
PayloadOf(text) ==
    CHOOSE p \in Payloads \cup Diagnostics :
        \E c \in ChildTexts : text = GdbStream(c, p)

\* triage_program ran on a gdb output whose four regions are all present
\* and whose backtrace payload on stdout is empty
EmptyBacktrace ==
    /\ IsSome(tri)
    /\ gdb_run.err = "none"
    /\ WellFormed(gdb_run.stdout) /\ WellFormed(gdb_run.stderr)
    /\ PayloadOf(gdb_run.stdout) = <<>>

\* C11 as stated: with all four extractions successful and the backtrace
\* payload empty, a Command error is returned only if the diagnostic payload
\* on stderr is non-empty; with both empty no Command error is returned.
C11_CommandErrorOnlyWithDiagnostic ==
    EmptyBacktrace =>
        LET program == Unwrap(tri).program IN
        (~program.ok /\ program.err.error_kind = "Command")
            <=> PayloadOf(gdb_run.stderr) # <<>>

\* C11 amended: with all four extractions successful and the backtrace
\* payload empty, the Command error "Triage script emitted errors" is
\* returned only if the diagnostic payload is non-empty; with both empty the
\* decode of the empty payload fails and the Command error "Failed to parse
\* triage JSON from GDB" is returned.
C11_EmptyBacktraceIsAlwaysAnError ==
    EmptyBacktrace =>
        LET program == Unwrap(tri).program IN
        /\ ~program.ok
        /\ program.err.error_kind = "Command"
        /\ program.err.error = "Triage script emitted errors"
             <=> PayloadOf(gdb_run.stderr) # <<>>
        /\ PayloadOf(gdb_run.stderr) = <<>>
             => program.err.error = "Failed to parse triage JSON from GDB"

C11_Witness ==
    /\ EmptyBacktrace
    /\ PayloadOf(gdb_run.stderr) = <<>>
    /\ Unwrap(tri).program.err.error = "Failed to parse triage JSON from GDB"
    /\ Unwrap(tri).result.tag = "Error"

\* the lines of each diagnostic payload, written out
LinesOfDiagnostic(d) ==
    CASE d = <<"e", NL>> -> << <<"e">> >>
      [] d = <<"e", NL, "f">> -> << <<"e">>, <<"f">> >>

\* C12: with the backtrace payload empty and the diagnostic payload
\* non-empty, the Command error "Triage script emitted errors" is returned,
\* its details being the lines of the diagnostic payload in order; the
\* empty payload is not given to the JSON decoder.
C12_ScriptErrorsCarryDiagnosticLines ==
    (EmptyBacktrace /\ PayloadOf(gdb_run.stderr) # <<>>) =>
        Unwrap(tri).program =
            Err(GdbTriageError("Command", "Triage script emitted errors",
                               LinesOfDiagnostic(PayloadOf(gdb_run.stderr))))

C12_Witness ==
    /\ EmptyBacktrace
    /\ PayloadOf(gdb_run.stderr) = <<"e", NL, "f">>
    /\ Unwrap(tri).program.err.details = << <<"e">>, <<"f">> >>

-----------------------------------------------------------------------------
(* Properties of DbgMarker::extract (SpecExtract) *)

\* byte indices at which the tag occurs in the text
Occurrences(text, tag) ==
    {i \in 0..(Len(text) - Len(tag)) :
        \A k \in 1..Len(tag) : text[i + k] = tag[k]}

Occurs(text, tag) == Occurrences(text, tag) # {}

\* the index of the first occurrence
FirstIndex(text, tag) ==
    CHOOSE i \in Occurrences(text, tag) :
        \A j \in Occurrences(text, tag) : i <= j

OutOfOrder == Err(<<"Start marker and end marker out-of-order">>)

Extracted == IsSome(marker_out)
Plain == Unwrap(marker_out).plain
Extended == Unwrap(marker_out).extended

\* C13: extract fails with "Could not find <start tag>" whenever the start
\* tag does not occur, the end tag being present or not, and with "Could not
\* find <end tag>" when the start tag occurs and the end tag does not; no
\* payload is returned in either case.
C13_MissingTagIsReported ==
    Extracted =>
        LET m == marker_in.m
            text == marker_in.text
        IN /\ ~Occurs(text, m.start) =>
                Plain = Err(<<"Could not find ">> \o m.start)
           /\ (Occurs(text, m.start) /\ ~Occurs(text, m.end)) =>
                Plain = Err(<<"Could not find ">> \o m.end)

C13_Witness ==
    /\ Extracted
    /\ ~Occurs(marker_in.text, marker_in.m.start)
    /\ Occurs(marker_in.text, marker_in.m.end)
    /\ Plain = Err(<<"Could not find ">> \o marker_in.m.start)

\* C14: with both tags in the text, s the index of the first start tag and e
\* the index of the first end tag, extract returns the slice
\* text[s + len(start tag) + 1 .. e) if s + len(start tag) + 1 <= e, and
\* fails with "Start marker and end marker out-of-order" otherwise; the
\* slice lies inside the text.
C14_SliceBetweenFirstTags ==
    (/\ Extracted
     /\ Occurs(marker_in.text, marker_in.m.start)
     /\ Occurs(marker_in.text, marker_in.m.end)) =>
        LET m == marker_in.m
            text == marker_in.text
            from == FirstIndex(text, m.start) + Len(m.start) + 1
            e == FirstIndex(text, m.end)
        IN IF from <= e
           THEN /\ e <= Len(text)
                /\ Plain = Ok([k \in 1..(e - from) |-> text[from + k]])
           ELSE Plain = OutOfOrder

\* no occurrence of a tag in the text followed by the extra reaches into the
\* extra
NoTagReachesInto(m, text, extra) ==
    \A tag \in {m.start, m.end} :
        \A i \in Occurrences(text \o extra, tag) : i + Len(tag) <= Len(text)

\* C15 as stated: for every text, marker and extra that contains neither
\* tag, extract of the text followed by the extra equals extract of the text.
C15_TagFreeTrailingTextIsIgnored ==
    (/\ Extracted
     /\ ~Occurs(marker_in.extra, marker_in.m.start)
     /\ ~Occurs(marker_in.extra, marker_in.m.end)) => Extended = Plain

\* C15 amended: for every text, marker and extra such that no occurrence of
\* a tag in the text followed by the extra reaches into the extra, extract
\* of the text followed by the extra equals extract of the text.
C15_TrailingTextWithoutNewTagIsIgnored ==
    (/\ Extracted
     /\ NoTagReachesInto(marker_in.m, marker_in.text, marker_in.extra))
        => Extended = Plain

C15_Witness ==
    /\ Extracted
    /\ marker_in.extra = <<NL, "x">>
    /\ Plain = Ok(<<"x">>)
    /\ Extended = Plain

\* C16 as stated: the end tag that closes the payload is the first one after
\* the start tag; an end tag before the start tag does not change the
\* payload.
C16_EndTagIsFirstAfterStart ==
    (Extracted /\ Occurs(marker_in.text, marker_in.m.start)) =>
        LET m == marker_in.m
            text == marker_in.text
            s == FirstIndex(text, m.start)
            from == s + Len(m.start) + 1
            after == {i \in Occurrences(text, m.end) : s + Len(m.start) <= i}
        IN \A e \in after :
              (/\ \A j \in after : e <= j
               /\ from <= e
               /\ is_char_boundary(text, from))
                 => Plain = Ok([k \in 1..(e - from) |-> text[from + k]])

\* C16 amended: the end tag that closes the payload is the first one in the
\* whole text; with an end tag before the start tag extract fails with
\* "Start marker and end marker out-of-order", whatever follows the start
\* tag.
C16_EndTagIsFirstInText ==
    (/\ Extracted
     /\ Occurs(marker_in.text, marker_in.m.start)
     /\ Occurs(marker_in.text, marker_in.m.end)) =>
        LET m == marker_in.m
            text == marker_in.text
            s == FirstIndex(text, m.start)
            e == FirstIndex(text, m.end)
        IN /\ e < s => Plain = OutOfOrder
           /\ Plain.ok => Len(Plain.val) = e - (s + Len(m.start) + 1)

C16_Witness ==
    /\ Extracted
    /\ LET m == marker_in.m
           text == marker_in.text
       IN /\ Occurs(text, m.start)
          /\ \E i, j \in Occurrences(text, m.end) :
                i < FirstIndex(text, m.start) /\ FirstIndex(text, m.start) < j
    /\ Plain = OutOfOrder

\* C17: when the start tag, as the first of its kind in the stream, is
\* written as its own line and the first end tag follows at once, extract
\* succeeds and returns the empty string.
C17_EmptyRegionIsValid ==
    (/\ Extracted
     /\ Occurs(marker_in.text, marker_in.m.start)
     /\ Occurs(marker_in.text, marker_in.m.end)) =>
        LET m == marker_in.m
            text == marker_in.text
            s == FirstIndex(text, m.start)
        IN (/\ FirstIndex(text, m.end) = s + Len(m.start) + 1
            /\ text[s + Len(m.start) + 1] = NL)
              => Plain = Ok(<<>>)

C17_Witness ==
    /\ Extracted
    /\ marker_in.text = <<"x">> \o marker_in.m.start \o <<NL>>
                        \o marker_in.m.end
    /\ Plain = Ok(<<>>)

-----------------------------------------------------------------------------
(* Properties of expand_filepath_templates (SpecTriage) *)

\* how many positions of the argv hold the token
CountOf(argv, token) == Cardinality({i \in 1..Len(argv) : argv[i] = token})

\* C18 as stated: the expanded argv has the length of the original, holds
\* the test case's path as many times as the original holds "@@", and keeps
\* every token that is not exactly "@@" in its place.
C18_PathCountEqualsPlaceholderCount ==
    IsSome(tri) =>
        LET prog_args == Unwrap(tri).prog_args IN
        /\ Len(prog_args) = Len(args.command)
        /\ CountOf(prog_args, testcase) = CountOf(args.command, "@@")
        /\ \A i \in 1..Len(args.command) :
              args.command[i] # "@@" => prog_args[i] = args.command[i]

\* C18 amended: the expanded argv has the length of the original, keeps
\* every token that is not exactly "@@" in its place, and holds the test
\* case's path as many times as the original holds "@@" or that path.
C18_PathCountCountsLiteralPaths ==
    IsSome(tri) =>
        LET prog_args == Unwrap(tri).prog_args IN
        /\ Len(prog_args) = Len(args.command)
        /\ CountOf(prog_args, testcase) =
              CountOf(args.command, "@@") + CountOf(args.command, testcase)
        /\ \A i \in 1..Len(args.command) :
              args.command[i] # "@@" => prog_args[i] = args.command[i]

C18_Witness ==
    /\ IsSome(tri)
    /\ args.command = <<"t", "/i/1", "@@">>
    /\ testcase = "/i/1"
    /\ Unwrap(tri).prog_args = <<"t", "/i/1", "/i/1">>

-----------------------------------------------------------------------------
(* Properties of main_wrapper's early exits (SpecStartup) *)

\* the target command line holds no "@@" token and --stdin is not given
NoPlaceholder ==
    /\ ~args.stdin
    /\ \A i \in 1..Len(args.command) : args.command[i] # "@@"

\* C19: without an "@@" token and without --stdin the run aborts with exit
\* code 1 before any test case is enumerated, profiled or triaged and
\* before an output directory or a report is created.
C19_NoPlaceholderAbortsFirst ==
    NoPlaceholder =>
        /\ pc \in {"start", "sanity_ok", "exit"}
        /\ pc = "exit" => exit_code = 1
        /\ effects \subseteq {Effect("sanity_check", 0),
                              Effect("error_sanity", 0),
                              Effect("error_placeholder", 0)}
        /\ ntestcases = 0
        /\ debugger_rss = 0
        /\ job_count = 0
        /\ io_log = {}
        /\ \A w \in Workers : wpc[w] = "idle"

C19_Witness ==
    /\ NoPlaceholder
    /\ pc = "exit"
    /\ exit_code = 1
    /\ effects = {Effect("sanity_check", 0), Effect("error_placeholder", 0)}

\* C20 as stated: with --profile-only, once the profiler has run on the
\* first test case the run exits with code 0, and the pool is never built,
\* no further test case triaged and no report written.
C20_ProfileOnlyExitsZero ==
    (args.profile_only /\ Effect("profile_target", 1) \in effects) =>
        /\ pc \in {"profiled", "exit"}
        /\ pc = "exit" => exit_code = 0
        /\ Effect("build_pool", 0) \notin effects
        /\ job_count = 0
        /\ io_log = {}
        /\ \A w \in Workers : wpc[w] = "idle"

\* C20 amended: with --profile-only the profiler has run on the first test
\* case, and on no other, once the options are read; the run then exits with
\* code 0, or with code 1 when profiling reported a fatal error, or with
\* status 101 when profiling panicked; in every case the pool is never
\* built, no further test case triaged and no report written.
C20_ProfileOnlyStopsAfterProfiling ==
    args.profile_only =>
        /\ pc # "pool"
        /\ pc = "profiled" => Effect("profile_target", 1) \in effects
        /\ \A e \in effects : e.op = "profile_target" => e.tc = 1
        /\ (pc = "exit" /\ Effect("profile_target", 1) \in effects) =>
              /\ exit_code \in {0, 1, 101}
              /\ exit_code = 1 <=> Effect("error_profile", 1) \in effects
              /\ exit_code = 101 <=> Effect("panic", 1) \in effects
        /\ (pc = "exit" /\ exit_code = 0) =>
              Effect("profile_target", 1) \in effects
        /\ Effect("build_pool", 0) \notin effects
        /\ job_count = 0
        /\ io_log = {}
        /\ \A w \in Workers : wpc[w] = "idle"

C20_Witness ==
    /\ args.profile_only
    /\ ntestcases >= 1
    /\ Effect("profile_target", 1) \in effects
    /\ Effect("error_profile", 1) \notin effects
    /\ debugger_rss >= 1
    /\ pc = "exit"
    /\ exit_code = 0

-----------------------------------------------------------------------------
\* C21: when main_wrapper has built the pool and every test case has been
\* counted, the exit status is 0 whatever the counters hold, all errored or
\* all timed out included; an exit status of 1 is only ever returned before
\* the pool is built.
C21_ExitCodeAfterPool ==
    pc = "exit" =>
        /\ (Effect("build_pool", 0) \in effects /\ Total = ntestcases)
              => exit_code = 0
        /\ exit_code = 1 => Effect("build_pool", 0) \notin effects

C21_Witness ==
    /\ pc = "exit"
    /\ Effect("build_pool", 0) \in effects
    /\ state.errored = ntestcases
    /\ exit_code = 0

\* C22: the environment is written only by the startup sanity check, each of
\* LIBC_FATAL_STDERR_, ASAN_OPTIONS and ASAN_SYMBOLIZER_PATH at most once,
\* before the profiler or a worker has started a debugger; once the pool is
\* running the environment no longer changes.
C22_EnvWrittenOnlyBySanityCheck ==
    [][env' # env =>
          /\ pc = "start"
          /\ Effect("profile_target", 1) \notin effects
          /\ Effect("build_pool", 0) \notin effects
          /\ \A t \in DOMAIN outcome : outcome[t] = Nothing
          /\ \A n \in EnvNames : env'[n].writes <= 1]_vars

C22_Witness ==
    /\ pc = "pool"
    /\ \E t \in DOMAIN outcome : IsSome(outcome[t])
    /\ \A n \in EnvNames : env[n].writes = 1 /\ env[n].val # "unset"

\* two errors that agree on all three fields
SameError(a, b) ==
    /\ a.error_kind = b.error_kind
    /\ a.error = b.error
    /\ a.details = b.details

\* C23: the unique-error map is keyed by the whole error, kind, message and
\* details: an errored test case bumps the entry of an error equal to its own
\* on all three fields and leaves the others alone; when no entry agrees on
\* all three, an entry that differs only in the details included, it gets an
\* entry of its own with count 1.
C23_ErrorsKeyedByAllFields ==
    [][\A w \in Workers :
          (wpc[w] = "counted" /\ wpc'[w] = "recorded"
             /\ cur[w].result.tag = "Error") =>
          LET e == cur[w].result.error
              old == state.unique_errors
              new == state'.unique_errors
              same == {k \in DOMAIN old : SameError(k, e)}
          IN /\ \A k \in DOMAIN old \ same : k \in DOMAIN new
                                              /\ new[k] = old[k]
             /\ IF same # {}
                THEN /\ DOMAIN new = DOMAIN old
                     /\ \A k \in same : new[k] = old[k] + 1
                ELSE /\ Cardinality(DOMAIN new) = Cardinality(DOMAIN old) + 1
                     /\ \E k \in DOMAIN new \ DOMAIN old :
                          SameError(k, e) /\ new[k] = 1]_vars

C23_Witness ==
    \E a, b \in DOMAIN state.unique_errors :
        /\ a.error_kind = b.error_kind
        /\ a.error = b.error
        /\ a.details # b.details

\* C24: a test case classified Crash has a primary thread with at least one
\* frame; a decoded response whose primary thread has an empty backtrace is
\* not classified as a crash.
C24_CrashHasFrames ==
    (IsSome(tri) /\ Unwrap(tri).result.tag = "Crash") =>
        Len(Unwrap(Unwrap(tri).result.triage.response.context)
                .primary_thread.backtrace) >= 1

\* C25: nothing cancels the pool: when every debugger invocation has
\* returned and the process has ended, every enumerated test case has been
\* triaged and counted and the final summary has been printed.
C25_EveryTestCaseTriaged ==
    pc = "exit" =>
        /\ queue = {}
        /\ \A t \in 1..ntestcases :
             IsSome(outcome[t])
             /\ Unwrap(outcome[t]).tag \in
                  {"Crash", "NoCrash", "Timedout", "Error"}
        /\ Total = ntestcases
        /\ Effect("summary", 0) \in effects

\* the index of the argument `cmd` given to gdb with -ex or -x, 0 if none
ArgIndex(cl, flag, cmd) ==
    LET at == {i \in 2..Len(cl) : cl[i - 1] = <<flag>> /\ cl[i] = cmd}
    IN IF at = {} THEN 0 ELSE CHOOSE i \in at : \A j \in at : i <= j

\* the steps of a gdb command line in the order they are to run
StepsInOrder(cl, run) ==
    << ArgIndex(cl, "-ex", make_gdb_marker(MARKER_CHILD_OUTPUT.start)),
       ArgIndex(cl, "-ex", <<"set logging file /dev/null">>),
       ArgIndex(cl, "-ex", <<"set logging redirect on">>),
       ArgIndex(cl, "-ex", <<"set logging on">>),
       ArgIndex(cl, "-ex", run),
       ArgIndex(cl, "-ex", <<"set logging redirect off">>),
       ArgIndex(cl, "-ex", <<"set logging off">>),
       ArgIndex(cl, "-ex", make_gdb_marker(MARKER_CHILD_OUTPUT.end)),
       ArgIndex(cl, "-ex", make_gdb_marker(MARKER_BACKTRACE.start)),
       ArgIndex(cl, "-x", <<TriageScriptPath>>),
       ArgIndex(cl, "-ex", <<"gdbtriage">>),
       ArgIndex(cl, "-ex", make_gdb_marker(MARKER_BACKTRACE.end)) >>

ClassifiedInOrder(input) ==
    IF input.meta = "none" THEN "Missing"
    ELSE IF input.meta = "file" THEN "Single"
    ELSE IF input.meta = "dir"
    THEN IF input.fuzzer_stats \/ input.queue \/ input.crashes
         THEN "AflDir" ELSE "PlainDir"
    ELSE "Unknown"

\* C27: a path without symlink metadata is Missing, a regular file is
\* Single, a directory with an entry fuzzer_stats, queue or crashes is AflDir,
\* any other directory is PlainDir and everything else is Unknown; AflDir is
\* given to directories only, and a path classified twice gets the same kind.
C27_ClassificationOrder ==
    \A i \in 1..Len(processed_inputs) :
        LET in == processed_inputs[i] IN
        /\ in.ty = ClassifiedInOrder(in.path)
        /\ in.ty = "AflDir" => in.path.meta = "dir"
        /\ \A j \in 1..Len(processed_inputs) :
             processed_inputs[j].path = in.path
                => processed_inputs[j].ty = in.ty

\* the sum of the counts of the entries `keys` of the unique-error map
RECURSIVE SumOfCounts(_, _)
SumOfCounts(map, keys) ==
    IF keys = {} THEN 0
    ELSE LET k == CHOOSE x \in keys : TRUE
         IN map[k] + SumOfCounts(map, keys \ {k})

\* the test cases with an Error outcome whose match arm has updated the map
ErrorsRecorded ==
    {t \in 1..ntestcases :
        /\ t \notin queue
        /\ Unwrap(outcome[t]).tag = "Error"
        /\ \A w \in Workers : cur[w].tc = t => wpc[w] = "recorded"}

\* C28: the counts of the unique-error map add up to the errored counter
\* (outside the Error arm, which increments the counter and then updates the
\* map under the mutex), every count is at least 1 and the map has at most
\* errored entries; only Error outcomes feed the map, a Timedout outcome
\* neither adds nor bumps an entry.
C28_UniqueErrorCounts ==
    LET map == state.unique_errors
        sum == SumOfCounts(map, DOMAIN map)
    IN /\ (\A w \in Workers : wpc[w] # "counted") => sum = state.errored
       /\ sum = Cardinality(ErrorsRecorded)
       /\ \A k \in DOMAIN map : map[k] >= 1
       /\ Cardinality(DOMAIN map) <= state.errored

C28_Witness ==
    /\ state.timedout = 1
    /\ state.errored = 1
    /\ \E k \in DOMAIN state.unique_errors : state.unique_errors[k] = 1
    /\ \A w \in Workers : wpc[w] = "idle"

\* the messages that conclude the summary
Concluding ==
    {Effect("error_all_errored", 0), Effect("warn_none_crashed", 0),
     Effect("warn_all_timedout", 0)}

\* C29: when the summary is reached there is at least one test case and at
\* most one of errored = total, no_crash = total and timedout = total holds,
\* so at most one of the messages "all errored", "none crashed" and "all
\* timed out" is printed.
C29_AtMostOneConcludingMessage ==
    Effect("summary", 0) \in effects =>
        /\ ntestcases >= 1
        /\ ~(state.errored = ntestcases /\ state.no_crash = ntestcases)
        /\ ~(state.errored = ntestcases /\ state.timedout = ntestcases)
        /\ ~(state.no_crash = ntestcases /\ state.timedout = ntestcases)
        /\ Cardinality(Concluding \cap effects) <= 1

C29_Witness ==
    /\ Effect("summary", 0) \in effects
    /\ ntestcases = 2
    /\ state.timedout = 2
    /\ Concluding \cap effects = {Effect("warn_all_timedout", 0)}

\* the test cases whose report went to a file
Written == {e.tc : e \in {x \in io_log : x.op = "fs_write"}}

\* the report files in the output directory
ReportFiles == {report_filename(Unwrap(outcome[t])) : t \in Written}

\* C30: with an output directory, when the run has reached its summary the
\* output directory holds as many report files as the signature set has
\* members: two crashes with different stackhashes never write to the same
\* file name.
C30_OneReportFilePerSignature ==
    (args.output_dir /\ Effect("summary", 0) \in effects) =>
        /\ Cardinality(ReportFiles) = Cardinality(state.crash_signature)
        /\ \A t, u \in Written :
             Unwrap(outcome[t]).stackhash # Unwrap(outcome[u]).stackhash
                => report_filename(Unwrap(outcome[t]))
                     # report_filename(Unwrap(outcome[u]))

====
